---------------------------- MODULE Spec2Model ----------------------------
(***************************************************************************)
(* A model of the wa-ia WhatsApp support bot: the command parser and the   *)
(* handover detector (src/src/handover.js), the two-tier session store     *)
(* (src/src/ai.js, lines 17-219, and its older unwrapped variant, lines    *)
(* 221-268), the text polisher (src/unnamed/part_000) and the webhook      *)
(* handler (src/src/server.js).                                            *)
(*                                                                         *)
(* Texts are sequences of one-character strings, so that trim, startsWith, *)
(* split, join, toLowerCase and includes are computed as the code computes *)
(* them.  Outbound message templates are tagged tuples holding the values  *)
(* the template interpolates.                                              *)
(***************************************************************************)
EXTENDS Integers, Sequences, FiniteSets, TLC

VARIABLES
    env,        \* process.env: which settings are present / "true"
    redis,      \* the durable backend: key -> entry or Absent
    memory,     \* the in-process fallback Map: key -> entry or Absent
    redisUp,    \* whether a call to the durable backend succeeds right now
    now,        \* nowSec(): wall clock, in seconds
    hs,         \* the in-flight invocations of the POST /webhook handler
    ideal,      \* history: per key, the last completed write (or Absent after a delete)
    budget,     \* history: how many messages, availability changes, clock advances so far
    api,        \* the last direct call of a public store operation and its result
    ptext,      \* the text handed to parseCommand / wantsTechnician
    pres,       \* the result of the last pure-function application
    scope       \* which inbound traffic the specification explores

vars == <<env, redis, memory, redisUp, now, hs, ideal, budget, api, ptext, pres, scope>>

-----------------------------------------------------------------------------
(* Strings.  A text is a sequence of characters; the accented letters of the
   keyword list are written "e_acute" and "e_circ" (one character each). *)

\* JavaScript's undefined and null (no text of the model equals either)
Undefined == <<"<undefined>">>
Null == <<"<null>">>

\* String.prototype.trim strips these (the model's whitespace characters)
WhiteSpace == {" ", "\t", "\n"}

RECURSIVE TrimStart(_)
TrimStart(s) ==
    IF s # <<>> /\ Head(s) \in WhiteSpace THEN TrimStart(Tail(s)) ELSE s

RECURSIVE TrimEnd(_)
TrimEnd(s) ==
    IF s # <<>> /\ s[Len(s)] \in WhiteSpace THEN TrimEnd(SubSeq(s, 1, Len(s) - 1)) ELSE s

Trim(s) == TrimEnd(TrimStart(s))

StartsWith(s, p) == Len(s) >= Len(p) /\ SubSeq(s, 1, Len(p)) = p

\* s.includes(k)
Includes(s, k) ==
    \E i \in 0..(Len(s) - Len(k)) : SubSeq(s, i + 1, i + Len(k)) = k

\* s.split(" "): the pieces between single space characters, empty pieces kept
RECURSIVE Split(_)
Split(s) ==
    IF \A i \in 1..Len(s) : s[i] # " "
    THEN <<s>>
    ELSE LET i == CHOOSE j \in 1..Len(s) : s[j] = " " /\ \A k \in 1..(j - 1) : s[k] # " "
         IN  <<SubSeq(s, 1, i - 1)>> \o Split(SubSeq(s, i + 1, Len(s)))

\* parts.join(" ")
RECURSIVE Join(_)
Join(parts) ==
    IF parts = <<>> THEN <<>>
    ELSE IF Len(parts) = 1 THEN parts[1]
    ELSE parts[1] \o <<" ">> \o Join(Tail(parts))

\* String.prototype.toLowerCase on one character
LowerChar(c) ==
    CASE c = "A" -> "a" [] c = "B" -> "b" [] c = "C" -> "c" [] c = "D" -> "d"
      [] c = "E" -> "e" [] c = "F" -> "f" [] c = "G" -> "g" [] c = "H" -> "h"
      [] c = "I" -> "i" [] c = "J" -> "j" [] c = "K" -> "k" [] c = "L" -> "l"
      [] c = "M" -> "m" [] c = "N" -> "n" [] c = "O" -> "o" [] c = "P" -> "p"
      [] c = "Q" -> "q" [] c = "R" -> "r" [] c = "S" -> "s" [] c = "T" -> "t"
      [] c = "U" -> "u" [] c = "V" -> "v" [] c = "W" -> "w" [] c = "X" -> "x"
      [] c = "Y" -> "y" [] c = "Z" -> "z"
      [] c = "E_acute" -> "e_acute" [] c = "E_circ" -> "e_circ"
      [] OTHER -> c

ToLowerCase(s) == [i \in 1..Len(s) |-> LowerChar(s[i])]

\* JavaScript truthiness of a string-or-missing value
Truthy(v) == v # Undefined /\ v # Null /\ v # <<>>

-----------------------------------------------------------------------------
(* src/src/handover.js *)

Keywords ==
    { <<"t","e_acute","c","n","i","c","o">>,
      <<"t","e","c","n","i","c","o">>,
      <<"a","s","s","i","s","t","e_circ","n","c","i","a">>,
      <<"a","t","e","n","d","e","n","t","e">>,
      <<"h","u","m","a","n","o">> }

wantsTechnician(text) ==
    LET t == ToLowerCase(IF text = Undefined THEN <<>> ELSE text)
    IN  \E k \in Keywords : Includes(t, k)

D_respraw == <<"/","r","e","s","p","r","a","w">>
D_resp    == <<"/","r","e","s","p">>
D_enviar  == <<"/","e","n","v","i","a","r">>
D_fechar  == <<"/","f","e","c","h","a","r">>
D_abertos == <<"/","a","b","e","r","t","o","s">>

\* const [, to, ...msg] = t.split(" ")
DestructTo(parts) == IF Len(parts) >= 2 THEN parts[2] ELSE Undefined

\* faulty variant, for sensitivity analysis: the rest taken one element too early: the recipient ends up in msg
DestructRestFromRecipient(parts) == IF Len(parts) >= 2 THEN SubSeq(parts, 2, Len(parts)) ELSE <<>>

DestructRest(parts) == IF Len(parts) >= 3 THEN SubSeq(parts, 3, Len(parts)) ELSE <<>>

parseCommand(text) ==
    LET t == Trim(IF text = Undefined THEN <<>> ELSE text)
        parts == Split(t)
    IN  IF StartsWith(t, D_respraw \o <<" ">>)
            THEN [type |-> "reply_raw", to |-> DestructTo(parts), msg |-> Join(DestructRest(parts))]
        ELSE IF StartsWith(t, D_resp \o <<" ">>)
            THEN [type |-> "reply", to |-> DestructTo(parts), msg |-> Join(DestructRest(parts))]
        ELSE IF StartsWith(t, D_enviar \o <<" ">>)
            THEN [type |-> "send", to |-> DestructTo(parts), msg |-> Undefined]
        ELSE IF StartsWith(t, D_fechar \o <<" ">>)
            THEN [type |-> "close", to |-> DestructTo(parts), msg |-> Undefined]
        ELSE IF t = D_abertos
            THEN [type |-> "list", to |-> Undefined, msg |-> Undefined]
        ELSE [type |-> "none", to |-> Undefined, msg |-> Undefined]

-----------------------------------------------------------------------------
(* The session store, src/src/ai.js lines 17-219 *)

\* End users (WhatsApp ids) and the two operator ids
U1 == <<"5">>
U2 == <<"7">>
Users == {U1, U2}
OWNER_WA_ID == <<"8">>
TECH_WA_ID  == <<"9">>

AI    == <<"A","I">>
HUMAN == <<"H","U","M","A","N">>
OPEN  == <<"O","P","E","N">>

\* `ctx:${user}` and the like: the prefix and the user id
Kinds == {"ctx", "mode", "ticket", "preview"}
\* faulty variant, for sensitivity analysis: one entry per kind, whoever the user
KeySharedByUsers(kind, user) == <<kind, <<"5">> >>

Key(kind, user) == <<kind, user>>
Keys == {Key(k, u) : k \in Kinds, u \in Users}
\* k.replace("ticket:", "")
KeyUser(k) == k[2]
\* k.startsWith(prefix), and the match of the KEYS pattern "ticket:*"
KeyHasPrefix(k, kind) == k[1] = kind

TTL == 60 * 60 * 24
PREVIEW_TTL == 60 * 15
CtxCap == 10

\* JSON.stringify / JSON.parse of a list of turns
JSONstringify(turns) == <<"json", turns>>
JSONparse(payload) == payload[2]

\* ctx.slice(-10)
SliceLast(ctx, n) == IF Len(ctx) <= n THEN ctx ELSE SubSeq(ctx, Len(ctx) - n + 1, Len(ctx))

\* A stored item { value, exp }; Absent is a key the map does not hold
Absent == [value |-> Undefined, exp |-> 0]
Item(value, exp) == [value |-> value, exp |-> exp]

\* ---- in-memory fallback
memGet(key) ==
    IF memory[key] = Absent THEN Null
    ELSE IF memory[key].exp <= now THEN Null
    ELSE memory[key].value

\* memGet's purge of an expired item: the map after the call
memGetPurged(m, key) ==
    IF m[key] # Absent /\ m[key].exp <= now THEN [m EXCEPT ![key] = Absent] ELSE m

memSet(m, key, value, ttlSec) == [m EXCEPT ![key] = Item(value, now + ttlSec)]

memDel(m, key) == [m EXCEPT ![key] = Absent]

\* no expiry check here
memKeys(prefix) == {k \in Keys : memory[k] # Absent /\ KeyHasPrefix(k, prefix)}

\* ---- the durable backend (Redis GET / SET EX / DEL / KEYS); a key past its
\* expiry is gone
redisLive(key) == redis[key] # Absent /\ redis[key].exp > now
redisGET(key) == IF redisLive(key) THEN redis[key].value ELSE Null
redisSET(r, key, value, ttlSec) == [r EXCEPT ![key] = Item(value, now + ttlSec)]
redisDEL(r, key) == [r EXCEPT ![key] = Absent]
redisKEYS(prefix) == {k \in Keys : redisLive(k) /\ KeyHasPrefix(k, prefix)}

\* `redis` is non-null: REDIS_URL was set when the module was loaded
redisClient == env.REDIS_URL
\* a call on the client resolves (it rejects when the backend is unreachable)
redisCallOk == redisClient /\ redisUp

safeRedisGet(key) ==
    IF ~redisClient THEN Null
    ELSE IF redisUp THEN redisGET(key) ELSE Null

\* safeRedisSet / safeRedisDel: the boolean they return
safeRedisSetOk == redisCallOk
safeRedisDelOk == redisCallOk

safeRedisKeys(prefix) ==
    IF ~redisClient THEN {}
    ELSE IF redisUp THEN redisKEYS(prefix) ELSE {}

\* ---- the write pattern shared by saveContext, setMode, openTicket, savePreview:
\*      const ok = await safeRedisSet(key, v, ttl); if (!ok) memSet(key, v, ttl)
StoreSet(key, value, ttlSec) ==
    /\ IF safeRedisSetOk
       THEN redis' = redisSET(redis, key, value, ttlSec) /\ UNCHANGED memory
       ELSE memory' = memSet(memory, key, value, ttlSec) /\ UNCHANGED redis
    /\ ideal' = [ideal EXCEPT ![key] = Item(value, now + ttlSec)]

\* ---- the delete pattern of closeTicket and clearPreview
StoreDel(key) ==
    /\ IF safeRedisDelOk
       THEN redis' = redisDEL(redis, key) /\ UNCHANGED memory
       ELSE memory' = memDel(memory, key) /\ UNCHANGED redis
    /\ ideal' = [ideal EXCEPT ![key] = Absent]

\* ---- the read pattern of getContext, getMode, getPreview:
\*      const v = await safeRedisGet(key); if (v) return v; ... memGet(key) ...
\* the value read, and the map after the read
StoreGet(key) ==
    LET v == safeRedisGet(key) IN IF Truthy(v) THEN v ELSE memGet(key)

StoreGetEffect(key) ==
    /\ memory' = IF Truthy(safeRedisGet(key)) THEN memory ELSE memGetPurged(memory, key)
    /\ UNCHANGED <<redis, ideal>>

\* ---- public API: the value each read returns
getContext(user) ==
    LET v == StoreGet(Key("ctx", user)) IN IF Truthy(v) THEN JSONparse(v) ELSE <<>>

\* faulty variant, for sensitivity analysis: the payload without the slice(-10)
SaveContextPayloadUncapped(ctx) == JSONstringify(ctx)

SaveContextPayload(ctx) == JSONstringify(SliceLast(ctx, CtxCap))

saveContext(user, ctx) == StoreSet(Key("ctx", user), SaveContextPayload(ctx), TTL)

getMode(user) ==
    LET v == StoreGet(Key("mode", user)) IN IF Truthy(v) THEN v ELSE AI

setMode(user, mode) == StoreSet(Key("mode", user), mode, TTL)

openTicket(user) == StoreSet(Key("ticket", user), OPEN, TTL)

\* closeTicket awaits twice: the delete, then setMode(user, "AI")
closeTicketDel(user) == StoreDel(Key("ticket", user))
closeTicketSetMode(user) == setMode(user, AI)

listTickets ==
    LET keys == IF redisClient THEN safeRedisKeys("ticket") ELSE memKeys("ticket")
    IN  {KeyUser(k) : k \in keys}

savePreview(user, text) == StoreSet(Key("preview", user), text, PREVIEW_TTL)

getPreview(user) == StoreGet(Key("preview", user))

clearPreview(user) == StoreDel(Key("preview", user))

\* ---- what the history says a read should return
idealGet(key) ==
    IF ideal[key] # Absent /\ ideal[key].exp > now THEN ideal[key].value ELSE Null

-----------------------------------------------------------------------------
(* The older variant of the same public API, src/src/ai.js lines 221-268: *)
(* every operation awaits the client directly; a rejected call propagates  *)
(* to the caller and nothing is written to the fallback map.  The client   *)
(* is always created (line 223); with REDIS_URL unset, it dials the        *)
(* default address, and redisUp tells whether that one answers.            *)

unwrappedRaises == ~redisUp

unwrappedSet(key, value, ttlSec) ==
    IF unwrappedRaises
    THEN UNCHANGED <<redis, memory, ideal>>
    ELSE /\ redis' = redisSET(redis, key, value, ttlSec)
         /\ ideal' = [ideal EXCEPT ![key] = Item(value, now + ttlSec)]
         /\ UNCHANGED memory

unwrappedDel(key) ==
    IF unwrappedRaises
    THEN UNCHANGED <<redis, memory, ideal>>
    ELSE /\ redis' = redisDEL(redis, key)
         /\ ideal' = [ideal EXCEPT ![key] = Absent]
         /\ UNCHANGED memory

unwrappedGetContext(user) ==
    LET data == redisGET(Key("ctx", user)) IN IF Truthy(data) THEN JSONparse(data) ELSE <<>>

unwrappedGetMode(user) ==
    LET v == redisGET(Key("mode", user)) IN IF Truthy(v) THEN v ELSE AI

unwrappedListTickets == {KeyUser(k) : k \in redisKEYS("ticket")}

unwrappedGetPreview(user) == redisGET(Key("preview", user))

-----------------------------------------------------------------------------
(* Bounds of the model *)

MaxMsgs == 2      \* inbound webhook calls, any traffic
MaxPreviewMsgs == 3   \* inbound webhook calls, preview commands only
MaxFlips == 2     \* changes of the backend's availability
MaxTicks == 1     \* advances of the clock
MaxCalls == 3     \* direct calls of the store's public API
MaxCtxLen == 12   \* longest context handed to saveContext directly
MaxRaceMsgs == 2  \* inbound webhook calls when invocations overlap
MaxRacing == 2    \* invocations in flight at once when they overlap
MaxTurnMsgs == 1  \* inbound webhook calls after the saved conversation
MaxUserFlips == 1 \* changes of the backend's availability, end-user traffic only

Digit == <<"0","1","2","3","4","5","6","7","8","9">>
NumText(k) == IF k < 10 THEN <<Digit[k + 1]>> ELSE <<Digit[(k \div 10) + 1], Digit[(k % 10) + 1]>>

\* the k-th turn of a test conversation, all turns distinct
TestTurn(k) == [role |-> IF k % 2 = 1 THEN "user" ELSE "assistant", content |-> NumText(k)]
TestCtx(n) == [k \in 1..n |-> TestTurn(k)]
CtxLens == {1, CtxCap, MaxCtxLen}
CtxInputs == {TestCtx(n) : n \in CtxLens}

PreviewInputs == {<<"a">>, <<"b">>}
Modes == {AI, HUMAN}

-----------------------------------------------------------------------------
(* The environment: the backend comes and goes, the clock advances *)

\* a client exists whose calls the backend's availability decides
BackendDialled == env.REDIS_URL \/ api.ver = "unwrapped"

ScopeFlips == IF scope \in {"turn", "users"} THEN MaxUserFlips ELSE MaxFlips

RedisFlip ==
    /\ BackendDialled
    /\ budget.flips < ScopeFlips
    /\ redisUp' = ~redisUp
    /\ budget' = [budget EXCEPT !.flips = @ + 1]
    /\ UNCHANGED <<env, redis, memory, now, hs, ideal, api, ptext, pres, scope>>

\* the lifetimes that matter: end-user traffic stages no preview
ScopeLifetimes == IF scope \in {"turn", "users"} THEN {TTL} ELSE {PREVIEW_TTL, TTL}

Advance ==
    /\ budget.ticks < MaxTicks
    /\ \E d \in ScopeLifetimes : now' = now + d
    /\ budget' = [budget EXCEPT !.ticks = @ + 1]
    /\ UNCHANGED <<env, redis, memory, redisUp, hs, ideal, api, ptext, pres, scope>>

-----------------------------------------------------------------------------
(* Direct calls of the store's public API by one sequential caller.  `api`  *)
(* records the last call: the operation, which variant of the module       *)
(* ("fallback": lines 151-219, "unwrapped": lines 221-268), its arguments, *)
(* what it returned, whether it raised and whether the backend answered;   *)
(* `pending` names the user of a closeTicket that has awaited    *)
(* its delete and not yet its setMode.  The variant is the one the build   *)
(* ships: it is chosen once, in the initial state.                         *)

NoCall(ver) ==
    [op |-> "none", ver |-> ver, user |-> Null, arg |-> Null, ret |-> Null,
     raised |-> FALSE, ok |-> FALSE, pending |-> Null]

ApiReady(ver) == api.ver = ver /\ api.pending = Null /\ budget.calls < MaxCalls

ApiDone(op, ver, user, arg, ret, raised, pending) ==
    /\ api' = [op |-> op, ver |-> ver, user |-> user, arg |-> arg, ret |-> ret,
               raised |-> raised, ok |-> IF ver = "unwrapped" THEN redisUp ELSE redisCallOk,
               pending |-> pending]
    /\ budget' = [budget EXCEPT !.calls = @ + 1]
    /\ UNCHANGED <<env, redisUp, now, hs, ptext, pres, scope>>

ApiGetContext ==
    \E u \in Users :
        /\ ApiReady("fallback")
        /\ StoreGetEffect(Key("ctx", u))
        /\ ApiDone("getContext", "fallback", u, Null, getContext(u), FALSE, Null)

ApiSaveContext ==
    \E u \in Users, ctx \in CtxInputs :
        /\ ApiReady("fallback")
        /\ saveContext(u, ctx)
        /\ ApiDone("saveContext", "fallback", u, ctx, Null, FALSE, Null)

ApiGetMode ==
    \E u \in Users :
        /\ ApiReady("fallback")
        /\ StoreGetEffect(Key("mode", u))
        /\ ApiDone("getMode", "fallback", u, Null, getMode(u), FALSE, Null)

ApiSetMode ==
    \E u \in Users, m \in Modes :
        /\ ApiReady("fallback")
        /\ setMode(u, m)
        /\ ApiDone("setMode", "fallback", u, m, Null, FALSE, Null)

ApiOpenTicket ==
    \E u \in Users :
        /\ ApiReady("fallback")
        /\ openTicket(u)
        /\ ApiDone("openTicket", "fallback", u, Null, Null, FALSE, Null)

ApiCloseTicket ==
    \E u \in Users :
        /\ ApiReady("fallback")
        /\ closeTicketDel(u)
        /\ ApiDone("closeTicket.del", "fallback", u, Null, Null, FALSE, u)

ApiCloseTicketSetMode ==
    /\ api.op = "closeTicket.del" /\ api.ver = "fallback" /\ api.pending # Null
    /\ closeTicketSetMode(api.pending)
    /\ api' = [api EXCEPT !.op = "closeTicket", !.pending = Null, !.ok = redisCallOk]
    /\ UNCHANGED <<env, redisUp, now, hs, budget, ptext, pres, scope>>

ApiListTickets ==
    /\ ApiReady("fallback")
    /\ UNCHANGED <<redis, memory, ideal>>
    /\ ApiDone("listTickets", "fallback", Null, Null, listTickets, FALSE, Null)

ApiSavePreview ==
    \E u \in Users, t \in PreviewInputs :
        /\ ApiReady("fallback")
        /\ savePreview(u, t)
        /\ ApiDone("savePreview", "fallback", u, t, Null, FALSE, Null)

ApiGetPreview ==
    \E u \in Users :
        /\ ApiReady("fallback")
        /\ StoreGetEffect(Key("preview", u))
        /\ ApiDone("getPreview", "fallback", u, Null, getPreview(u), FALSE, Null)

ApiClearPreview ==
    \E u \in Users :
        /\ ApiReady("fallback")
        /\ clearPreview(u)
        /\ ApiDone("clearPreview", "fallback", u, Null, Null, FALSE, Null)

\* ---- the unwrapped variant
UnwrappedRead ==
    \E u \in Users, op \in {"getContext", "getMode", "getPreview", "listTickets"} :
        /\ ApiReady("unwrapped")
        /\ UNCHANGED <<redis, memory, ideal>>
        /\ ApiDone(op, "unwrapped", IF op = "listTickets" THEN Null ELSE u, Null,
                   IF unwrappedRaises THEN Null
                   ELSE IF op = "getContext" THEN unwrappedGetContext(u)
                   ELSE IF op = "getMode" THEN unwrappedGetMode(u)
                   ELSE IF op = "getPreview" THEN unwrappedGetPreview(u)
                   ELSE unwrappedListTickets,
                   unwrappedRaises, Null)

UnwrappedSaveContext ==
    \E u \in Users, ctx \in CtxInputs :
        /\ ApiReady("unwrapped")
        /\ unwrappedSet(Key("ctx", u), SaveContextPayload(ctx), TTL)
        /\ ApiDone("saveContext", "unwrapped", u, ctx, Null, unwrappedRaises, Null)

UnwrappedSetMode ==
    \E u \in Users, m \in Modes :
        /\ ApiReady("unwrapped")
        /\ unwrappedSet(Key("mode", u), m, TTL)
        /\ ApiDone("setMode", "unwrapped", u, m, Null, unwrappedRaises, Null)

UnwrappedOpenTicket ==
    \E u \in Users :
        /\ ApiReady("unwrapped")
        /\ unwrappedSet(Key("ticket", u), OPEN, TTL)
        /\ ApiDone("openTicket", "unwrapped", u, Null, Null, unwrappedRaises, Null)

\* await redis.del(...); await setMode(user, "AI"): a rejected delete skips the setMode
UnwrappedCloseTicket ==
    \E u \in Users :
        /\ ApiReady("unwrapped")
        /\ unwrappedDel(Key("ticket", u))
        /\ ApiDone("closeTicket.del", "unwrapped", u, Null, Null, unwrappedRaises,
                   IF unwrappedRaises THEN Null ELSE u)

UnwrappedCloseTicketSetMode ==
    /\ api.op = "closeTicket.del" /\ api.ver = "unwrapped" /\ api.pending # Null
    /\ unwrappedSet(Key("mode", api.pending), AI, TTL)
    /\ api' = [api EXCEPT !.op = "closeTicket", !.pending = Null, !.raised = unwrappedRaises,
                          !.ok = redisUp]
    /\ UNCHANGED <<env, redisUp, now, hs, budget, ptext, pres, scope>>

UnwrappedSavePreview ==
    \E u \in Users, t \in PreviewInputs :
        /\ ApiReady("unwrapped")
        /\ unwrappedSet(Key("preview", u), t, PREVIEW_TTL)
        /\ ApiDone("savePreview", "unwrapped", u, t, Null, unwrappedRaises, Null)

UnwrappedClearPreview ==
    \E u \in Users :
        /\ ApiReady("unwrapped")
        /\ unwrappedDel(Key("preview", u))
        /\ ApiDone("clearPreview", "unwrapped", u, Null, Null, unwrappedRaises, Null)

-----------------------------------------------------------------------------
(* The text polisher, src/unnamed/part_000 (imported by server.js as       *)
(* ./polish.js), given what gerarResposta returned                         *)

POLISH_MAX == 1500

polishAgentText(original, polished) ==
    IF ~Truthy(polished) \/ Len(Trim(polished)) < 3
    THEN original
    ELSE LET t == Trim(polished) IN SubSeq(t, 1, IF Len(t) < POLISH_MAX THEN Len(t) ELSE POLISH_MAX)

-----------------------------------------------------------------------------
(* The webhook handler, src/src/server.js lines 41-252.  Each invocation   *)
(* is a process of its own, suspended at every await: one step of the      *)
(* model is the completion of the awaited call and the code up to the next *)
(* await.  A rejected promise that nothing catches ends the invocation in  *)
(* pc = "crashed" (an unhandled rejection of the async handler).           *)

Handlers == {1, 2}

\* what gerarResposta can return (res.choices?.[0]?.message?.content || "")
AIReplies == { <<>>, <<"O","l","a">> }

\* inbound texts
T_oi == <<"o","i">>
T_humano == <<"Q","u","e","r","o"," ","u","m"," ","H","u","m","a","n","o">>
UserTexts == {T_oi, T_humano}
\* operator commands, all about end user U1: the five well-formed ones, an
\* unrecognized text, and the malformed ones (no recipient, no body, a doubled
\* space before the recipient)
OperatorTexts ==
    { Join(<<D_resp, U1, <<"a">> >>), Join(<<D_respraw, U1, <<"b">> >>),
      Join(<<D_enviar, U1>>), Join(<<D_fechar, U1>>), D_abertos, T_oi,
      D_resp, D_enviar, D_fechar, Join(<<D_respraw, U1>>), Join(<<D_enviar, <<>>, U1>>) }

Operators ==
    (IF env.OWNER_WA_ID THEN {OWNER_WA_ID} ELSE {}) \cup (IF env.TECH_WA_ID THEN {TECH_WA_ID} ELSE {})

NoCmd == [type |-> "none", to |-> Undefined, msg |-> Undefined]

IdleHandler ==
    [pc |-> "idle", from |-> Null, text |-> Null, cmd |-> NoCmd, finalText |-> Null,
     val |-> Null, reply |-> Null, aiArg |-> Null, sends |-> <<>>]

Finished(h) == hs[h].pc \in {"idle", "done", "crashed"}

\* const isAgent = from === process.env.OWNER_WA_ID || from === process.env.TECH_WA_ID
isAgent(from) == from \in Operators

shouldPolish(cmd) == env.POLISH_AGENT_MESSAGES /\ cmd.type = "reply"

\* where a reply goes once finalText is known (lines 77-94)
AfterFinalText == IF env.AGENT_PREVIEW_MODE THEN "savePreview" ELSE "sendDirect"

\* the first await of an invocation, from the synchronous code of lines 47-163
FirstPc(from, text) ==
    LET cmd == parseCommand(text) IN
    IF isAgent(from) THEN
        CASE cmd.type \in {"reply", "reply_raw"} ->
                IF ~Truthy(cmd.to) \/ ~Truthy(cmd.msg) THEN "done"
                ELSE IF shouldPolish(cmd) THEN "polish" ELSE AfterFinalText
          [] cmd.type = "send" -> IF ~Truthy(cmd.to) THEN "done" ELSE "getPreview"
          [] cmd.type = "close" -> IF ~Truthy(cmd.to) THEN "done" ELSE "closeDel"
          [] cmd.type = "list" -> "listTickets"
          [] OTHER -> "sendHelp"
    ELSE IF wantsTechnician(text) THEN "hoSetMode" ELSE "getMode"

SystemTurn == [role |-> "system", content |-> <<"S">>]
UserTurn(text) == [role |-> "user", content |-> text]
AssistantTurn(text) == [role |-> "assistant", content |-> text]

\* the preview commands among them
PreviewTexts ==
    { Join(<<D_resp, U1, <<"a">> >>), Join(<<D_respraw, U1, <<"b">> >>), Join(<<D_enviar, U1>>) }

\* the traffic a specification explores: who writes, what, how many messages,
\* how many invocations at once
\* the close command alone
CloseTexts == { Join(<<D_fechar, U1>>) }

ScopeOperatorTexts ==
    CASE scope = "preview" -> PreviewTexts
      [] scope = "race" -> CloseTexts
      [] OTHER -> OperatorTexts
ScopeUsers ==
    CASE scope = "preview" -> {}
      [] scope \in {"race", "turn"} -> {U1}
      [] OTHER -> Users
ScopeMsgs ==
    CASE scope = "preview" -> MaxPreviewMsgs
      [] scope \in {"race", "users"} -> MaxRaceMsgs
      [] scope = "turn" -> MaxTurnMsgs
      [] OTHER -> MaxMsgs
MaxInFlight == 1
\* the preview commands are typed by one operator, one after the other, and
\* the turns of one user are taken with no other invocation for that user
ScopeInFlight ==
    CASE scope \in {"race", "users"} -> MaxRacing
      [] scope \in {"preview", "turn"} -> 1
      [] OTHER -> MaxInFlight

\* the operator who writes: the owner when configured, else the technician
Senders ==
    ScopeUsers \cup (IF scope = "users" THEN {}
                     ELSE IF env.OWNER_WA_ID THEN {OWNER_WA_ID}
                     ELSE IF env.TECH_WA_ID THEN {TECH_WA_ID} ELSE {})

\* invocations are interchangeable: a new one takes the first free slot
Receive(h) ==
    /\ Finished(h)
    /\ \A g \in Handlers : g < h => ~Finished(g)
    /\ Cardinality({g \in Handlers : ~Finished(g)}) < ScopeInFlight
    /\ budget.msgs < ScopeMsgs
    /\ \E from \in Senders :
       \E body \in IF isAgent(from) THEN ScopeOperatorTexts ELSE UserTexts :
          LET text == Trim(body) IN
          hs' = [hs EXCEPT ![h] =
                    [IdleHandler EXCEPT !.pc = FirstPc(from, text), !.from = from, !.text = text,
                                        !.cmd = IF isAgent(from) THEN parseCommand(text) ELSE NoCmd,
                                        !.finalText = IF isAgent(from) /\ Truthy(parseCommand(text).msg)
                                                      THEN parseCommand(text).msg ELSE Null]]
    /\ budget' = [budget EXCEPT !.msgs = @ + 1]
    /\ UNCHANGED <<env, redis, memory, redisUp, now, ideal, api, ptext, pres, scope>>

\* the variables no step of a handler touches
HFrame == UNCHANGED <<env, redisUp, now, budget, api, ptext, pres, scope>>
StoreFrame == UNCHANGED <<redis, memory, ideal>>

\* lines 69-75: the polisher's failure is caught
HPolish(h) ==
    /\ hs[h].pc = "polish"
    /\ \E polished \in AIReplies \cup {Undefined} :
          hs' = [hs EXCEPT ![h].pc = AfterFinalText,
                           ![h].finalText = IF polished = Undefined THEN hs[h].cmd.msg
                                            ELSE polishAgentText(hs[h].cmd.msg, polished)]
    /\ StoreFrame /\ HFrame

HSavePreview(h) ==
    /\ hs[h].pc = "savePreview"
    /\ savePreview(hs[h].cmd.to, hs[h].finalText)
    /\ hs' = [hs EXCEPT ![h].pc = "sendPreviewNote"]
    /\ HFrame

HGetPreview(h) ==
    /\ hs[h].pc = "getPreview"
    /\ StoreGetEffect(Key("preview", hs[h].cmd.to))
    /\ LET preview == getPreview(hs[h].cmd.to) IN
       hs' = [hs EXCEPT ![h].val = preview,
                        ![h].pc = IF ~Truthy(preview) THEN "sendNoPreview" ELSE "sendDeliver"]
    /\ HFrame

HClearPreview(h) ==
    /\ hs[h].pc = "clearPreview"
    /\ clearPreview(hs[h].cmd.to)
    /\ hs' = [hs EXCEPT ![h].pc = "sendConfirm"]
    /\ HFrame

HCloseDel(h) ==
    /\ hs[h].pc = "closeDel"
    /\ closeTicketDel(hs[h].cmd.to)
    /\ hs' = [hs EXCEPT ![h].pc = "closeSetMode"]
    /\ HFrame

HCloseSetMode(h) ==
    /\ hs[h].pc = "closeSetMode"
    /\ closeTicketSetMode(hs[h].cmd.to)
    /\ hs' = [hs EXCEPT ![h].pc = "sendClosedUser"]
    /\ HFrame

HListTickets(h) ==
    /\ hs[h].pc = "listTickets"
    /\ hs' = [hs EXCEPT ![h].val = listTickets, ![h].pc = "sendList"]
    /\ StoreFrame /\ HFrame

HSetModeHuman(h) ==
    /\ hs[h].pc = "hoSetMode"
    /\ setMode(hs[h].from, HUMAN)
    /\ hs' = [hs EXCEPT ![h].pc = "hoOpenTicket"]
    /\ HFrame

HOpenTicket(h) ==
    /\ hs[h].pc = "hoOpenTicket"
    /\ openTicket(hs[h].from)
    /\ hs' = [hs EXCEPT ![h].pc = "sendAutoText"]
    /\ HFrame

\* the operator notifications of lines 174-196 and 203-221, in order
NotifyFrom(owner, tech, stage) ==
    IF stage = "owner" /\ env.OWNER_WA_ID THEN owner
    ELSE IF stage \in {"owner", "tech"} /\ env.TECH_WA_ID THEN tech
    ELSE "done"

HGetMode(h) ==
    /\ hs[h].pc = "getMode"
    /\ StoreGetEffect(Key("mode", hs[h].from))
    /\ hs' = [hs EXCEPT ![h].pc = IF getMode(hs[h].from) = HUMAN
                                  THEN NotifyFrom("ptNotifyOwner", "ptNotifyTech", "owner")
                                  ELSE "getContext"]
    /\ HFrame

HGetContext(h) ==
    /\ hs[h].pc = "getContext"
    /\ StoreGetEffect(Key("ctx", hs[h].from))
    /\ hs' = [hs EXCEPT ![h].val = getContext(hs[h].from), ![h].pc = "gerarResposta"]
    /\ HFrame

\* lines 229-241: const msgs = [ {system}, ...ctx, {user} ]
AiMessages(ctx, text) == <<SystemTurn>> \o ctx \o <<UserTurn(text)>>

\* faulty variant, for sensitivity analysis: the assistant turn is not kept
NewContextWithoutReply(ctx, text, reply) == ctx \o <<UserTurn(text)>>

\* lines 247-251: [ ...ctx, {user}, {assistant} ]
NewContext(ctx, text, reply) == ctx \o <<UserTurn(text), AssistantTurn(reply)>>

\* faulty variant, for sensitivity analysis: a failed completion is swallowed
CompletionFailedSwallowed == "sendReply"

\* where a rejected gerarResposta leaves the invocation: nothing catches it
CompletionFailed == "crashed"

\* line 243: a rejected completion call is not caught
HGerarResposta(h) ==
    /\ hs[h].pc = "gerarResposta"
    /\ LET msgs == AiMessages(hs[h].val, hs[h].text) IN
       \E reply \in AIReplies \cup {Undefined} :
          hs' = [hs EXCEPT ![h].aiArg = msgs,
                           ![h].reply = IF reply = Undefined THEN Null ELSE reply,
                           ![h].pc = IF reply = Undefined THEN CompletionFailed ELSE "sendReply"]
    /\ StoreFrame /\ HFrame

HSaveContext(h) ==
    /\ hs[h].pc = "saveContext"
    /\ saveContext(hs[h].from, NewContext(hs[h].val, hs[h].text, hs[h].reply))
    /\ hs' = [hs EXCEPT ![h].pc = "done"]
    /\ HFrame

\* ---- outbound messages: at each sending pc, the recipient, the template
\* (with the values it interpolates) and the pc that follows a delivered send
Msg(to, kind, body) == [to |-> to, kind |-> kind, body |-> body]

SendPcs ==
    {"sendPreviewNote", "sendDirect", "sendNoPreview", "sendDeliver", "sendConfirm",
     "sendClosedUser", "sendClosedAgent", "sendList", "sendHelp", "sendAutoText",
     "hoNotifyOwner", "hoNotifyTech", "ptNotifyOwner", "ptNotifyTech", "sendReply"}

Outbound(r) ==
    CASE r.pc = "sendPreviewNote" -> Msg(r.from, "previewNote", <<r.finalText, r.cmd.to>>)
      [] r.pc = "sendDirect"      -> Msg(r.cmd.to, "text", r.finalText)
      [] r.pc = "sendNoPreview"   -> Msg(r.from, "noPreview", <<>>)
      [] r.pc = "sendDeliver"     -> Msg(r.cmd.to, "text", r.val)
      [] r.pc = "sendConfirm"     -> Msg(r.from, "sentConfirm", <<>>)
      [] r.pc = "sendClosedUser"  -> Msg(r.cmd.to, "closedNotice", <<>>)
      [] r.pc = "sendClosedAgent" -> Msg(r.from, "closedConfirm", r.cmd.to)
      [] r.pc = "sendList"        -> Msg(r.from, IF r.val = {} THEN "noneOpen" ELSE "openList", r.val)
      [] r.pc = "sendHelp"        -> Msg(r.from, "help", <<>>)
      [] r.pc = "sendAutoText"    -> Msg(r.from, "handoverAutoText", <<>>)
      [] r.pc = "hoNotifyOwner"   -> Msg(OWNER_WA_ID, "handoverNote", <<r.from, r.text>>)
      [] r.pc = "hoNotifyTech"    -> Msg(TECH_WA_ID, "handoverNote", <<r.from, r.text>>)
      [] r.pc = "ptNotifyOwner"   -> Msg(OWNER_WA_ID, "humanModeNote", <<r.from, r.text>>)
      [] r.pc = "ptNotifyTech"    -> Msg(TECH_WA_ID, "humanModeNote", <<r.from, r.text>>)
      [] r.pc = "sendReply"       -> Msg(r.from, "text", r.reply)

AfterSend(r) ==
    CASE r.pc = "sendDeliver"     -> "clearPreview"
      [] r.pc = "sendClosedUser"  -> "sendClosedAgent"
      [] r.pc = "sendAutoText"    -> NotifyFrom("hoNotifyOwner", "hoNotifyTech", "owner")
      [] r.pc = "hoNotifyOwner"   -> NotifyFrom("hoNotifyOwner", "hoNotifyTech", "tech")
      [] r.pc = "ptNotifyOwner"   -> NotifyFrom("ptNotifyOwner", "ptNotifyTech", "tech")
      [] r.pc = "sendReply"       -> "saveContext"
      [] OTHER -> "done"

\* sendTextMessage (src/src/whatsapp.js): axios.post resolves, or rejects and
\* the rejection propagates out of the handler (no send is inside a try)
\* faulty variant, for sensitivity analysis: a failed send is swallowed
SendFailedSwallowed(r) == AfterSend(r)

SendFailed(r) == "crashed"

HSend(h) ==
    /\ hs[h].pc \in SendPcs
    /\ \E ok \in BOOLEAN :
          hs' = [hs EXCEPT ![h].sends = Append(@, [msg |-> Outbound(hs[h]), ok |-> ok]),
                           ![h].pc = IF ok THEN AfterSend(hs[h]) ELSE SendFailed(hs[h])]
    /\ StoreFrame /\ HFrame

-----------------------------------------------------------------------------
(* Specification of the bot: the handler invocations and the environment *)

EnvSettings ==
    [OWNER_WA_ID : BOOLEAN, TECH_WA_ID : BOOLEAN, AGENT_PREVIEW_MODE : BOOLEAN,
     POLISH_AGENT_MESSAGES : BOOLEAN, REDIS_URL : BOOLEAN]

NoBudget == [msgs |-> 0, flips |-> 0, ticks |-> 0, calls |-> 0]
NoInput == [text |-> <<>>, dir |-> Null, to |-> Null, toks |-> <<>>, seps |-> <<>>]
NoResult == [fn |-> "none", cmd |-> NoCmd, wants |-> FALSE]

\* the state after the modules are loaded: both maps empty, nothing in flight
InitCommon ==
    /\ redis = [k \in Keys |-> Absent]
    /\ memory = [k \in Keys |-> Absent]
    /\ ideal = [k \in Keys |-> Absent]
    /\ redisUp \in (IF BackendDialled THEN BOOLEAN ELSE {FALSE})
    /\ now = 0
    /\ hs = [h \in Handlers |-> IdleHandler]
    /\ budget = NoBudget

Init ==
    /\ env \in EnvSettings
    /\ api = NoCall("fallback")
    /\ InitCommon
    /\ ptext = NoInput
    /\ pres = NoResult
    /\ scope = "full"

Next ==
    \/ RedisFlip
    \/ Advance
    \/ \E h \in Handlers : Receive(h)
    \/ \E h \in Handlers : HPolish(h)
    \/ \E h \in Handlers : HSavePreview(h)
    \/ \E h \in Handlers : HGetPreview(h)
    \/ \E h \in Handlers : HClearPreview(h)
    \/ \E h \in Handlers : HCloseDel(h)
    \/ \E h \in Handlers : HCloseSetMode(h)
    \/ \E h \in Handlers : HListTickets(h)
    \/ \E h \in Handlers : HSetModeHuman(h)
    \/ \E h \in Handlers : HOpenTicket(h)
    \/ \E h \in Handlers : HGetMode(h)
    \/ \E h \in Handlers : HGetContext(h)
    \/ \E h \in Handlers : HGerarResposta(h)
    \/ \E h \in Handlers : HSaveContext(h)
    \/ \E h \in Handlers : HSend(h)

Spec == Init /\ [][Next]_vars

\* ---- the preview workflow alone: one operator, /resp, /respraw and /enviar
InitPreview ==
    /\ env \in {e \in EnvSettings : e.OWNER_WA_ID /\ ~e.TECH_WA_ID}
    /\ api = NoCall("fallback")
    /\ InitCommon
    /\ ptext = NoInput
    /\ pres = NoResult
    /\ scope = "preview"

NextPreview ==
    \/ RedisFlip
    \/ Advance
    \/ \E h \in Handlers : Receive(h)
    \/ \E h \in Handlers : HPolish(h)
    \/ \E h \in Handlers : HSavePreview(h)
    \/ \E h \in Handlers : HGetPreview(h)
    \/ \E h \in Handlers : HClearPreview(h)
    \/ \E h \in Handlers : HSend(h)

SpecPreview == InitPreview /\ [][NextPreview]_vars

\* ---- overlapping invocations about one end user: the user's own messages
\* and an operator's /fechar for that user, two webhook calls in flight
InitRace ==
    /\ env \in {e \in EnvSettings : ~e.AGENT_PREVIEW_MODE /\ ~e.POLISH_AGENT_MESSAGES
                                    /\ (e.OWNER_WA_ID \/ e.TECH_WA_ID)}
    /\ api = NoCall("fallback")
    /\ InitCommon
    /\ ptext = NoInput
    /\ pres = NoResult
    /\ scope = "race"

NextRace ==
    \/ RedisFlip
    \/ Advance
    \/ \E h \in Handlers : Receive(h)
    \/ \E h \in Handlers : HCloseDel(h)
    \/ \E h \in Handlers : HCloseSetMode(h)
    \/ \E h \in Handlers : HSetModeHuman(h)
    \/ \E h \in Handlers : HOpenTicket(h)
    \/ \E h \in Handlers : HGetMode(h)
    \/ \E h \in Handlers : HGetContext(h)
    \/ \E h \in Handlers : HGerarResposta(h)
    \/ \E h \in Handlers : HSaveContext(h)
    \/ \E h \in Handlers : HSend(h)

SpecRace == InitRace /\ [][NextRace]_vars

\* ---- overlapping invocations for different end users; no operator is
\* configured, so the notifications (which touch no entry) are not sent
InitUsers ==
    /\ env \in {e \in EnvSettings : ~e.AGENT_PREVIEW_MODE /\ ~e.POLISH_AGENT_MESSAGES
                                    /\ ~e.OWNER_WA_ID /\ ~e.TECH_WA_ID}
    /\ api = NoCall("fallback")
    /\ InitCommon
    /\ ptext = NoInput
    /\ pres = NoResult
    /\ scope = "users"

NextUsers ==
    \/ RedisFlip
    \/ Advance
    \/ \E h \in Handlers : Receive(h)
    \/ \E h \in Handlers : HSetModeHuman(h)
    \/ \E h \in Handlers : HOpenTicket(h)
    \/ \E h \in Handlers : HGetMode(h)
    \/ \E h \in Handlers : HGetContext(h)
    \/ \E h \in Handlers : HGerarResposta(h)
    \/ \E h \in Handlers : HSaveContext(h)
    \/ \E h \in Handlers : HSend(h)

SpecUsers == InitUsers /\ [][NextUsers]_vars

\* ---- the end-user paths of one user, one invocation at a time, after a
\* conversation whose turns were saved earlier (one saveContext before the
\* first message stands for those earlier turns)
InitTurn ==
    /\ env \in {e \in EnvSettings : ~e.AGENT_PREVIEW_MODE /\ ~e.POLISH_AGENT_MESSAGES}
    /\ api = NoCall("fallback")
    /\ InitCommon
    /\ ptext = NoInput
    /\ pres = NoResult
    /\ scope = "turn"

EarlierTurns ==
    /\ budget.msgs = 0 /\ budget.calls = 0
    /\ \E ctx \in CtxInputs :
          /\ saveContext(U1, ctx)
          /\ ApiDone("saveContext", "fallback", U1, ctx, Null, FALSE, Null)

NextTurn ==
    \/ RedisFlip
    \/ Advance
    \/ EarlierTurns
    \/ \E h \in Handlers : Receive(h)
    \/ \E h \in Handlers : HSetModeHuman(h)
    \/ \E h \in Handlers : HOpenTicket(h)
    \/ \E h \in Handlers : HGetMode(h)
    \/ \E h \in Handlers : HGetContext(h)
    \/ \E h \in Handlers : HGerarResposta(h)
    \/ \E h \in Handlers : HSaveContext(h)
    \/ \E h \in Handlers : HSend(h)

SpecTurn == InitTurn /\ [][NextTurn]_vars

-----------------------------------------------------------------------------
(* Specification of the store alone: one caller, the public API *)

StoreEnv ==
    {e \in EnvSettings : ~e.OWNER_WA_ID /\ ~e.TECH_WA_ID /\ ~e.AGENT_PREVIEW_MODE
                         /\ ~e.POLISH_AGENT_MESSAGES}

InitStore ==
    /\ env \in StoreEnv
    /\ api \in {NoCall("fallback"), NoCall("unwrapped")}
    /\ InitCommon
    /\ ptext = NoInput
    /\ pres = NoResult
    /\ scope = "store"

NextStore ==
    \/ RedisFlip
    \/ Advance
    \/ ApiGetContext
    \/ ApiSaveContext
    \/ ApiGetMode
    \/ ApiSetMode
    \/ ApiOpenTicket
    \/ ApiCloseTicket
    \/ ApiCloseTicketSetMode
    \/ ApiListTickets
    \/ ApiSavePreview
    \/ ApiGetPreview
    \/ ApiClearPreview
    \/ UnwrappedRead
    \/ UnwrappedSaveContext
    \/ UnwrappedSetMode
    \/ UnwrappedOpenTicket
    \/ UnwrappedCloseTicket
    \/ UnwrappedCloseTicketSetMode
    \/ UnwrappedSavePreview
    \/ UnwrappedClearPreview

SpecStore == InitStore /\ [][NextStore]_vars

\* ---- the context operations alone (lines 151-166)
InitContext ==
    /\ env \in StoreEnv
    /\ api = NoCall("fallback")
    /\ InitCommon
    /\ ptext = NoInput
    /\ pres = NoResult
    /\ scope = "store"

NextContext ==
    \/ RedisFlip
    \/ Advance
    \/ ApiGetContext
    \/ ApiSaveContext

SpecContext == InitContext /\ [][NextContext]_vars

-----------------------------------------------------------------------------
(* Specification of the pure functions of handover.js: an input text, built *)
(* from a directive, a recipient, body tokens and the separators between   *)
(* them, and one application of parseCommand or wantsTechnician            *)

MaxBodyTokens == 2

Tokens == { <<"a">>, <<"o","i">> }
Recipients == { U1, <<"5","5","1","1">> }
WsRuns == { <<" ">>, <<" "," ">>, <<"\t">>, <<"\n">> }
Directives == {D_resp, D_respraw, D_enviar, D_fechar, D_abertos}

SeqsOf(S, n) == [1..n -> S]

\* directive sep1 recipient sep2 tok1 sep3 tok2 ...
RECURSIVE Glue(_, _)
Glue(items, seps) ==
    IF Len(items) <= 1 THEN (IF items = <<>> THEN <<>> ELSE items[1])
    ELSE items[1] \o seps[1] \o Glue(Tail(items), Tail(seps))

CommandInput(dir, to, toks, seps) ==
    [text |-> Glue(<<dir, to>> \o toks, seps), dir |-> dir, to |-> to, toks |-> toks, seps |-> seps]

CommandInputs ==
    UNION { { CommandInput(dir, to, toks, seps) :
                dir \in Directives, to \in Recipients,
                toks \in SeqsOf(Tokens, n), seps \in SeqsOf(WsRuns, n + 1) } :
            n \in 0..MaxBodyTokens }

PlainInputs ==
    { [NoInput EXCEPT !.text = t] :
        t \in { T_oi, T_humano, D_resp, D_respraw, D_enviar, D_fechar, D_abertos,
                D_abertos \o <<" ">>, <<" ">> \o D_abertos, D_abertos \o <<" ">> \o U1,
                <<"b","o","m"," ","d","i","a">>,
                <<"T","E_acute","C","N","I","C","O">>,
                <<"a","s","s","i","s","t","e","n","c","i","a">> } }

ParseInputs == CommandInputs \cup PlainInputs

InitParse ==
    /\ env = [OWNER_WA_ID |-> FALSE, TECH_WA_ID |-> FALSE, AGENT_PREVIEW_MODE |-> FALSE,
              POLISH_AGENT_MESSAGES |-> FALSE, REDIS_URL |-> FALSE]
    /\ api = NoCall("fallback")
    /\ InitCommon
    /\ ptext \in ParseInputs
    /\ pres = NoResult
    /\ scope = "parse"

ApplyParseCommand ==
    /\ pres.fn = "none"
    /\ pres' = [NoResult EXCEPT !.fn = "parseCommand", !.cmd = parseCommand(ptext.text)]
    /\ UNCHANGED <<env, redis, memory, redisUp, now, hs, ideal, budget, api, ptext, scope>>

ApplyWantsTechnician ==
    /\ pres.fn = "none"
    /\ pres' = [NoResult EXCEPT !.fn = "wantsTechnician", !.wants = wantsTechnician(ptext.text)]
    /\ UNCHANGED <<env, redis, memory, redisUp, now, hs, ideal, budget, api, ptext, scope>>

NextParse == ApplyParseCommand \/ ApplyWantsTechnician

SpecParse == InitParse /\ [][NextParse]_vars

-----------------------------------------------------------------------------
(* Properties *)

Min(a, b) == IF a < b THEN a ELSE b

\* the last min(n, Len(ctx)) turns of ctx, in their order
LastTurns(ctx, n) ==
    LET m == Min(n, Len(ctx)) IN [i \in 1..m |-> ctx[Len(ctx) - m + i]]

SingleSpaces(n) == [i \in 1..n |-> <<" ">>]

\* C10 as stated: parseCommand tokenizes on whitespace.  For a text made of
\* /resp or /respraw, a recipient and one or more body tokens, separated by
\* any non-empty runs of whitespace, the result has type reply for /resp and
\* reply_raw for /respraw, `to` is the recipient and `msg` is the body tokens
\* joined with single spaces.
C10_ExpectedCmd ==
    [type |-> IF ptext.dir = D_respraw THEN "reply_raw" ELSE "reply",
     to |-> ptext.to,
     msg |-> Glue(ptext.toks, SingleSpaces(Len(ptext.toks) - 1))]

C10_ReplyText == ptext.dir \in {D_resp, D_respraw} /\ Len(ptext.toks) >= 1

C10_WhitespaceTokenized ==
    (pres.fn = "parseCommand" /\ C10_ReplyText) => pres.cmd = C10_ExpectedCmd

\* C10 as amended: the same, for texts whose parts are separated by exactly
\* one space character each.
C10_SingleSpaced == \A i \in 1..Len(ptext.seps) : ptext.seps[i] = <<" ">>

C10_SingleSpaceTokenized ==
    (pres.fn = "parseCommand" /\ C10_ReplyText /\ C10_SingleSpaced) => pres.cmd = C10_ExpectedCmd

\* C10 witness: "/respraw 5511 oi a" was parsed to a reply_raw
C10_Witness ==
    /\ pres.fn = "parseCommand"
    /\ ptext.text = Join(<<D_respraw, <<"5","5","1","1">>, <<"o","i">>, <<"a">> >>)
    /\ C10_SingleSpaced
    /\ pres.cmd.type = "reply_raw"
    /\ pres.cmd.msg = <<"o","i"," ","a">>

\* C5: every context held by either tier has at most 10 turns; a saveContext
\* leaves exactly the last min(10, len) turns of its argument, in order, in
\* the tier it writes; and a getContext that follows the save with the
\* backend answering as it did for the save (and the entry not expired)
\* returns those turns unchanged.
C5_AtMostCap ==
    \A u \in Users :
        /\ redis[Key("ctx", u)] # Absent => Len(JSONparse(redis[Key("ctx", u)].value)) <= CtxCap
        /\ memory[Key("ctx", u)] # Absent => Len(JSONparse(memory[Key("ctx", u)].value)) <= CtxCap

C5_SaveStep ==
    (budget'.calls = budget.calls + 1 /\ api'.op = "saveContext") =>
        LET k == Key("ctx", api'.user)
            tier == IF api'.ok THEN redis' ELSE memory'
        IN  /\ tier[k] # Absent
            /\ JSONparse(tier[k].value) = LastTurns(api'.arg, CtxCap)
            /\ tier[k].exp = now + TTL

C5_RoundTripStep ==
    (/\ budget'.calls = budget.calls + 1
     /\ api'.op = "getContext"
     /\ api.op = "saveContext"
     /\ api.user = api'.user
     /\ api.ok = api'.ok
     /\ idealGet(Key("ctx", api.user)) # Null) =>
        api'.ret = LastTurns(api.arg, CtxCap)

C5_ContextCapped == []C5_AtMostCap /\ [][C5_SaveStep /\ C5_RoundTripStep]_vars

\* C5 witness: the longest test context was saved and read back as its last 10 turns
C5_Witness ==
    /\ api.op = "getContext"
    /\ Len(api.ret) = CtxCap
    /\ api.ret = LastTurns(TestCtx(MaxCtxLen), CtxCap)
    /\ api.ret # TestCtx(CtxCap)

\* ---- what a read of the store would return in the current state
ObservedMode(u) == getMode(u)
ObservedTicket(u) == u \in listTickets
ObservedPreview(u) == getPreview(u)
ObservedContext(u) == getContext(u)

\* ---- what the last completed writes say it should return
ExpectedMode(u) ==
    LET v == idealGet(Key("mode", u)) IN IF v = Null THEN AI ELSE v
ExpectedTicket(u) == idealGet(Key("ticket", u)) # Null
ExpectedPreview(u) == idealGet(Key("preview", u))
ExpectedContext(u) ==
    LET v == idealGet(Key("ctx", u)) IN IF v = Null THEN <<>> ELSE JSONparse(v)

\* C3: with the durable store configured and unreachable from the start, every
\* session operation works through the fallback and values round-trip: a read
\* returns what the last write of that key left (mode, context, preview), and
\* a user is listed by listTickets exactly while their ticket is open.
C3_Unreachable ==
    /\ env.REDIS_URL /\ ~redisUp /\ budget.flips = 0
    /\ api.ver = "fallback" /\ api.pending = Null

C3_FallbackRoundTrips ==
    C3_Unreachable =>
        \A u \in Users :
            /\ ObservedMode(u) = ExpectedMode(u)
            /\ ObservedContext(u) = ExpectedContext(u)
            /\ ObservedPreview(u) = ExpectedPreview(u)
            /\ ObservedTicket(u) <=> ExpectedTicket(u)

\* C8: every public operation of the store returns normally whatever the
\* backend does, and a write or delete the backend did not take is applied
\* to the in-memory map instead.
C8_WrittenKey ==
    CASE api.op = "saveContext" -> Key("ctx", api.user)
      [] api.op \in {"setMode", "closeTicket"} -> Key("mode", api.user)
      [] api.op = "openTicket" -> Key("ticket", api.user)
      [] api.op = "savePreview" -> Key("preview", api.user)
      [] OTHER -> Key("mode", U1)

C8_WrittenValue ==
    CASE api.op = "saveContext" -> JSONstringify(LastTurns(api.arg, CtxCap))
      [] api.op = "setMode" -> api.arg
      [] api.op = "closeTicket" -> AI
      [] api.op = "openTicket" -> OPEN
      [] api.op = "savePreview" -> api.arg
      [] OTHER -> Null

C8_DeletedKey ==
    IF api.op = "clearPreview" THEN Key("preview", api.user) ELSE Key("ticket", api.user)

C8_NeverRaises ==
    /\ ~api.raised
    /\ (api.op \in {"saveContext", "setMode", "closeTicket", "openTicket", "savePreview"} /\ ~api.ok)
          => memory[C8_WrittenKey].value = C8_WrittenValue
    /\ (api.op \in {"clearPreview", "closeTicket.del"} /\ ~api.ok)
          => memory[C8_DeletedKey] = Absent

\* ---- steps and outcomes of a handler invocation
Took(h, from, to) == hs[h].pc = from /\ hs'[h].pc = to
Ended(h) == hs[h].pc \in {"done", "crashed"}
SendsTo(h, to) == {i \in 1..Len(hs[h].sends) : hs[h].sends[i].msg.to = to}
SendsOfKind(h, kind) == {i \in 1..Len(hs[h].sends) : hs[h].sends[i].msg.kind = kind}

\* C1: with preview mode on, an operator /resp <to> <msg> sends nothing to
\* <to> and sends the operator one preview notification holding the staged
\* text; an /enviar <to> finds exactly what was last staged for <to> and not
\* yet sent (so the /enviar after a /resp delivers that text, and a second
\* /enviar with no new /resp or /respraw finds nothing and answers 'no
\* preview pending'), whatever the backend's availability was in between.
C1_RespStagesOnly ==
    \A h \in Handlers :
        (env.AGENT_PREVIEW_MODE /\ hs[h].cmd.type = "reply" /\ Ended(h) /\ Truthy(hs[h].cmd.msg)) =>
            /\ SendsTo(h, hs[h].cmd.to) = {}
            /\ Len(hs[h].sends) = 1
            /\ hs[h].sends[1].msg = Msg(hs[h].from, "previewNote", <<hs[h].finalText, hs[h].cmd.to>>)
            /\ ideal[Key("preview", hs[h].cmd.to)].value = hs[h].finalText

C1_EnviarFindsStaged ==
    \A h \in Handlers :
        (hs[h].pc = "getPreview" /\ hs'[h].pc # "getPreview") =>
            /\ hs'[h].val = ExpectedPreview(hs[h].cmd.to)
            /\ hs'[h].pc = IF ExpectedPreview(hs[h].cmd.to) = Null THEN "sendNoPreview" ELSE "sendDeliver"

C1_EnviarDeliversAndClears ==
    \A h \in Handlers :
        /\ Took(h, "sendDeliver", "clearPreview") =>
              hs'[h].sends[Len(hs'[h].sends)].msg = Msg(hs[h].cmd.to, "text", hs[h].val)
        /\ Took(h, "clearPreview", "sendConfirm") => ExpectedPreview(hs[h].cmd.to)' = Null
        /\ Took(h, "sendNoPreview", "done") =>
              /\ SendsTo(h, hs[h].cmd.to)' = {}
              /\ hs'[h].sends[1].msg = Msg(hs[h].from, "noPreview", <<>>)

C1_PreviewThenSend ==
    []C1_RespStagesOnly /\ [][C1_EnviarFindsStaged /\ C1_EnviarDeliversAndClears]_vars

\* C2: after an operator /fechar <user> has completed (and until the user
\* next triggers a handover), getMode(user) returns AI and the user is not in
\* listTickets(), whatever the backend's availability was before, during and
\* after the close.
C2_Closed(u) ==
    /\ idealGet(Key("mode", u)) = AI
    /\ idealGet(Key("ticket", u)) = Null
    /\ \A h \in Handlers : hs[h].cmd.type = "close" => hs[h].pc # "closeSetMode"

C2_CloseResetsModeAndTicket ==
    \A u \in Users : C2_Closed(u) => (ObservedMode(u) = AI /\ ~ObservedTicket(u))

\* C4: a non-operator message that matches the handover detector sets
\* mode=HUMAN and opens a ticket for the sender, sends the end user exactly
\* one message (the handover auto-text), sends each configured operator id
\* exactly one notification (and nothing to one that is not configured), and
\* neither calls the AI completion nor sends an AI reply.
C4_Notified(h, configured, id) ==
    IF configured
    THEN /\ Cardinality(SendsTo(h, id)) = 1
         /\ \A i \in SendsTo(h, id) :
               hs[h].sends[i].msg = Msg(id, "handoverNote", <<hs[h].from, hs[h].text>>)
    ELSE SendsTo(h, id) = {}

C4_HandoverTurn ==
    \A h \in Handlers :
        (Ended(h) /\ ~isAgent(hs[h].from) /\ wantsTechnician(hs[h].text)) =>
            /\ ideal[Key("mode", hs[h].from)].value = HUMAN
            /\ ideal[Key("ticket", hs[h].from)].value = OPEN
            /\ Cardinality(SendsTo(h, hs[h].from)) = 1
            /\ \A i \in SendsTo(h, hs[h].from) :
                  hs[h].sends[i].msg = Msg(hs[h].from, "handoverAutoText", <<>>)
            /\ C4_Notified(h, env.OWNER_WA_ID, OWNER_WA_ID)
            /\ C4_Notified(h, env.TECH_WA_ID, TECH_WA_ID)
            /\ hs[h].aiArg = Null
            /\ hs[h].reply = Null

\* C6: within the retention window, the mode getMode observes for a user
\* changes from AI to HUMAN only by that user's handover trigger and from
\* HUMAN to AI only by an operator /fechar for that user; no other step of
\* the router and no change of the backend's availability changes it.
C6_ByHandover(u) ==
    \E h \in Handlers : Took(h, "hoSetMode", "hoOpenTicket") /\ hs[h].from = u

C6_ByClose(u) ==
    \E h \in Handlers : Took(h, "closeSetMode", "sendClosedUser") /\ hs[h].cmd.to = u

C6_ModeStep ==
    \A u \in Users :
        (now' = now /\ ObservedMode(u)' # ObservedMode(u)) =>
            \/ ObservedMode(u)' = HUMAN /\ C6_ByHandover(u)
            \/ ObservedMode(u)' = AI /\ C6_ByClose(u)

C6_ModeTransitions == [][C6_ModeStep]_vars

\* C7: no failure of an external call made while handling an inbound message
\* escapes the handler: every invocation ends in its normal completed state.
C7_NoEscapingFailure == \A h \in Handlers : hs[h].pc # "crashed"

\* C9: an operator command malformed by missing arguments (/resp or /respraw
\* without recipient or without body, /enviar or /fechar without recipient)
\* is dropped: the invocation ends at once, having sent nothing to anyone.
C9_MissingArguments ==
    { D_resp, D_respraw, D_enviar, D_fechar, Join(<<D_resp, U1>>), Join(<<D_respraw, U1>>) }

C9_MalformedDropped ==
    \A h \in Handlers :
        (hs[h].pc # "idle" /\ isAgent(hs[h].from) /\ hs[h].text \in C9_MissingArguments) =>
            (hs[h].pc = "done" /\ hs[h].sends = <<>>)


\* C11: operator notifications are independent sends.  An invocation that has
\* started the handover sends (auto-text first) or the human-mode passthrough
\* notifications ends having attempted a notification to every configured
\* operator id, whichever of its sends failed.
C11_NotifyingTurn(h) ==
    /\ Ended(h)
    /\ hs[h].sends # <<>>
    /\ hs[h].sends[1].msg.kind \in {"handoverAutoText", "handoverNote", "humanModeNote"}

C11_IndependentNotifications ==
    \A h \in Handlers :
        C11_NotifyingTurn(h) => \A id \in Operators : SendsTo(h, id) # {}


\* C12: in every quiescent state (no invocation in flight) a user whose
\* ticket is open is in mode HUMAN, whatever the interleaving of the
\* invocations that ran for that user.  Checked here for the histories in
\* which the clock and the backend's availability never changed, so that only
\* the interleaving can matter.
C12_Quiescent == \A h \in Handlers : Finished(h)

C12_Undisturbed == budget.ticks = 0 /\ budget.flips = 0

C12_TicketImpliesHuman ==
    (C12_Quiescent /\ C12_Undisturbed) =>
        \A u \in Users : ObservedTicket(u) => ObservedMode(u) = HUMAN


\* C13: in the in-memory fallback path (no durable store configured) every
\* read treats an entry whose TTL has elapsed as absent: getMode returns AI,
\* getContext the empty list, getPreview nothing, and listTickets does not
\* contain the user whose ticket entry has expired.
C13_Expired(k) == memory[k] # Absent /\ memory[k].exp <= now

C13_ExpiredIsAbsent ==
    (~env.REDIS_URL /\ api.ver = "fallback") =>
        \A u \in Users :
            /\ C13_Expired(Key("mode", u)) => ObservedMode(u) = AI
            /\ C13_Expired(Key("ctx", u)) => ObservedContext(u) = <<>>
            /\ C13_Expired(Key("preview", u)) => ObservedPreview(u) = Null
            /\ C13_Expired(Key("ticket", u)) => ~ObservedTicket(u)


\* C14: a non-operator message without a handover keyword from a user whose
\* mode reads HUMAN does not reach the AI completion, sends nothing to the
\* end user, forwards the raw text as exactly one notification to each
\* configured operator id, and changes no entry of the store.
C14_PassthroughPcs == {"ptNotifyOwner", "ptNotifyTech"}

\* an ended invocation that took the passthrough branch: it never loaded a context
C14_Passthrough(h) ==
    /\ Ended(h) /\ ~isAgent(hs[h].from) /\ ~wantsTechnician(hs[h].text)
    /\ hs[h].val = Null

C14_Forwarded(h, configured, id) ==
    IF configured
    THEN /\ Cardinality(SendsTo(h, id)) = 1
         /\ \A i \in SendsTo(h, id) :
               hs[h].sends[i].msg = Msg(id, "humanModeNote", <<hs[h].from, hs[h].text>>)
    ELSE SendsTo(h, id) = {}

C14_PassthroughTurn ==
    \A h \in Handlers :
        C14_Passthrough(h) =>
            /\ hs[h].aiArg = Null /\ hs[h].reply = Null
            /\ SendsTo(h, hs[h].from) = {}
            /\ C14_Forwarded(h, env.OWNER_WA_ID, OWNER_WA_ID)
            /\ C14_Forwarded(h, env.TECH_WA_ID, TECH_WA_ID)

C14_PassthroughStep(h) ==
    \/ hs[h].pc = "getMode" /\ hs'[h].pc \in C14_PassthroughPcs \cup {"done"}
    \/ hs[h].pc \in C14_PassthroughPcs /\ hs'[h] # hs[h]

C14_NoMutation ==
    \A h \in Handlers : C14_PassthroughStep(h) => UNCHANGED <<redis, memory>>

C14_PassthroughOnly == []C14_PassthroughTurn /\ [][C14_NoMutation]_vars


\* C15: an end user's message without a handover keyword, read in mode AI,
\* with one invocation at a time: the AI completion is called with the system
\* instruction, the stored context and the new user turn; the text it
\* returns, empty or not, is sent to the end user; and once the invocation
\* has completed the stored context is the last 10 turns of the previous
\* context followed by the user turn and the assistant turn.  No step of the
\* turn changes the mode, ticket or preview of any user.
C15_TurnPcs == {"getContext", "gerarResposta", "sendReply", "saveContext"}

C15_Others(v) ==
    /\ ObservedMode(v)' = ObservedMode(v)
    /\ ObservedTicket(v)' = ObservedTicket(v)
    /\ ObservedPreview(v)' = ObservedPreview(v)

C15_TurnStep(h) ==
    LET r == hs[h]  s == hs'[h] IN
    /\ (r.pc = "getMode" /\ s.pc # "getMode") =>
          ((s.pc = "getContext") <=> (ObservedMode(r.from) = AI))
    /\ Took(h, "getContext", "gerarResposta") => s.val = ObservedContext(r.from)
    /\ Took(h, "gerarResposta", "sendReply") =>
          s.aiArg = <<SystemTurn>> \o r.val \o <<UserTurn(r.text)>>
    /\ Took(h, "sendReply", "saveContext") =>
          s.sends = <<[msg |-> Msg(r.from, "text", r.reply), ok |-> TRUE]>>
    /\ Took(h, "saveContext", "done") =>
          ObservedContext(r.from)' =
              LastTurns(r.val \o <<UserTurn(r.text), AssistantTurn(r.reply)>>, CtxCap)
    /\ (r.pc \in C15_TurnPcs /\ s # r) => \A v \in Users : C15_Others(v)

C15_AiTurn == [][\A h \in Handlers : C15_TurnStep(h)]_vars

\* a completed turn on top of a full context, answered with the empty text
C15_Witness ==
    \E h \in Handlers :
        /\ hs[h].pc = "done" /\ hs[h].aiArg # Null
        /\ Len(hs[h].val) = CtxCap
        /\ hs[h].reply = <<>>
        /\ hs[h].sends = <<[msg |-> Msg(U1, "text", <<>>), ok |-> TRUE]>>
        /\ Len(ObservedContext(U1)) = CtxCap
        /\ ObservedContext(U1)[CtxCap] = AssistantTurn(<<>>)
        /\ ObservedContext(U1)[1] = hs[h].val[3]


\* C16: a step of an invocation handling a message of end user u, whatever
\* other invocations are in flight, changes no entry (mode, ticket, context,
\* preview, in either tier) of any other user.
C16_OwnEntriesOnly(h) ==
    (hs[h].pc \notin {"idle", "done", "crashed"} /\ hs'[h] # hs[h] /\ ~isAgent(hs[h].from)) =>
        \A k \in Keys :
            KeyUser(k) # hs[h].from => (redis'[k] = redis[k] /\ memory'[k] = memory[k])

C16_UserIsolation == [][\A h \in Handlers : C16_OwnEntriesOnly(h)]_vars

\* two invocations overlap: U2's AI turn has completed and saved its context
\* while U1's handover, received first, is still in flight
C16_Witness ==
    /\ hs[1].from = U1 /\ hs[1].pc = "sendAutoText"
    /\ hs[2].from = U2 /\ hs[2].pc = "done" /\ hs[2].aiArg # Null
    /\ ObservedMode(U1) = HUMAN /\ ObservedTicket(U1)
    /\ ObservedMode(U2) = AI /\ ~ObservedTicket(U2)
    /\ Len(ObservedContext(U2)) = 2 /\ ObservedContext(U1) = <<>>


\* C17: the two-tier store is read-your-latest-write per key.  Between calls,
\* for every availability history of the backend, a read of a user's mode,
\* context or preview returns what the last completed write of that key
\* left, and nothing after the last completed delete.
C17_ReadYourWrites ==
    (api.ver = "fallback" /\ api.pending = Null) =>
        \A u \in Users :
            /\ ObservedMode(u) = ExpectedMode(u)
            /\ ObservedContext(u) = ExpectedContext(u)
            /\ ObservedPreview(u) = ExpectedPreview(u)


\* C18: from a user's handover trigger until the next /fechar for that user,
\* within the retention window, no message of the user reaches the AI
\* branch (no completion call, no AI reply), for every availability history:
\* no invocation is in the AI branch for a sender whose last completed mode
\* write, still unexpired, is HUMAN.
C18_NoAiWhileHuman ==
    \A h \in Handlers :
        (hs[h].pc \in C15_TurnPcs /\ ~isAgent(hs[h].from)) =>
            ExpectedMode(hs[h].from) # HUMAN


\* C19: on /enviar <to> with a pending preview the steps are deliver, clear,
\* confirm.  The preview is cleared, and the operator gets the 'message sent'
\* confirmation, only after the staged text was delivered to <to>; when that
\* delivery fails the invocation stops there, the preview entry is left as
\* it was and no confirmation is sent.
C19_Delivered(r) ==
    /\ Len(r.sends) >= 1
    /\ r.sends[1] = [msg |-> Msg(r.cmd.to, "text", r.val), ok |-> TRUE]

C19_Order ==
    \A h \in Handlers :
        /\ hs[h].pc \in {"clearPreview", "sendConfirm"} =>
              (C19_Delivered(hs[h]) /\ Len(hs[h].sends) = 1)
        /\ SendsOfKind(h, "sentConfirm") # {} =>
              (C19_Delivered(hs[h]) /\ SendsOfKind(h, "sentConfirm") = {2} /\ Len(hs[h].sends) = 2)

C19_Step ==
    \A h \in Handlers :
        LET r == hs[h]  s == hs'[h] IN
        /\ (r.pc = "sendDeliver" /\ s.pc # "sendDeliver") =>
              /\ UNCHANGED <<redis, memory>>
              /\ IF s.sends[1].ok THEN s.pc = "clearPreview"
                 ELSE s.pc = "crashed" /\ Len(s.sends) = 1
        /\ (s.pc = "clearPreview" /\ r.pc # "clearPreview") => r.pc = "sendDeliver"
        /\ (s.pc = "sendConfirm" /\ r.pc # "sendConfirm") =>
              (r.pc = "clearPreview" /\ ExpectedPreview(r.cmd.to)' = Null)
        /\ (r.pc = "crashed" /\ s.pc = "crashed") => s = r

C19_DeliverClearConfirm == []C19_Order /\ [][C19_Step]_vars

\* a delivery that failed: the invocation stopped, the preview is still staged
C19_Witness ==
    \E h \in Handlers :
        /\ hs[h].cmd.type = "send" /\ hs[h].pc = "crashed"
        /\ hs[h].sends = <<[msg |-> Msg(U1, "text", <<"a">>), ok |-> FALSE]>>
        /\ ObservedPreview(U1) = <<"a">>


\* C20: in an AI turn the context is persisted only after the reply was
\* generated and delivered.  saveContext is reached only from a reply that
\* was sent successfully; a failed completion call or a failed send ends the
\* invocation, and no step before saveContext changes what any read of the
\* store returns for any user (the only mutation is memGet's purge of
\* entries already expired).
C20_BeforeSavePcs == {"getMode", "getContext", "gerarResposta", "sendReply"}

C20_SameReads(u) ==
    /\ ObservedContext(u)' = ObservedContext(u)
    /\ ObservedMode(u)' = ObservedMode(u)
    /\ ObservedTicket(u)' = ObservedTicket(u)
    /\ ObservedPreview(u)' = ObservedPreview(u)

C20_Step ==
    \A h \in Handlers :
        LET r == hs[h]  s == hs'[h] IN
        /\ (r.pc \in C20_BeforeSavePcs /\ s # r) =>
              /\ redis' = redis
              /\ \A k \in Keys : memory'[k] = memory[k] \/ (C13_Expired(k) /\ memory'[k] = Absent)
              /\ \A u \in Users : C20_SameReads(u)
        /\ Took(h, "gerarResposta", "sendReply") => s.reply \in AIReplies
        /\ (r.pc = "gerarResposta" /\ s.pc \notin {"gerarResposta", "sendReply"}) =>
              (s.pc = "crashed" /\ s.sends = <<>>)
        /\ (s.pc = "saveContext" /\ r.pc # "saveContext") =>
              /\ r.pc = "sendReply" /\ r.reply \in AIReplies
              /\ s.sends = <<[msg |-> Msg(r.from, "text", r.reply), ok |-> TRUE]>>
        /\ (r.pc = "sendReply" /\ s.pc \notin {"sendReply", "saveContext"}) =>
              (s.pc = "crashed" /\ ~s.sends[1].ok)

C20_SaveAfterDelivery == [][C20_Step]_vars

\* the reply of a turn on top of a saved conversation could not be sent: the
\* invocation stopped and the stored context is the one the turn loaded
C20_Witness ==
    \E h \in Handlers :
        /\ hs[h].pc = "crashed" /\ hs[h].reply \in AIReplies
        /\ hs[h].sends = <<[msg |-> Msg(U1, "text", hs[h].reply), ok |-> FALSE]>>
        /\ Len(hs[h].val) = CtxCap
        /\ ObservedContext(U1) = hs[h].val

=============================================================================
